---- MODULE Spec2Model ----
(***************************************************************************)
(* Model of faust/worker.py: the Worker lifecycle controller.              *)
(*                                                                         *)
(* One asyncio event loop runs every task; a task runs atomically from one *)
(* suspension point to the next.  Every maybe_start/stop call on a service *)
(* or a sensor is a suspension point that returns or raises.  Each action  *)
(* below is one such atomic run of one task (or one signal delivery).      *)
(*                                                                         *)
(* The mutable state is gathered into the record Cur so that the methods   *)
(* of Worker can be written as operators from state to state and composed  *)
(* the way the code calls them.                                            *)
(***************************************************************************)
EXTENDS Integers, Sequences, FiniteSets, TLC

\* ------------------------------------------------------------------ bounds
MaxServices == 2     \* longest *services sequence
MaxSensorArgs == 2   \* longest sensors= argument (may repeat a sensor)
MaxRunSensors == 1   \* most sensors under execute_from_commandline
MaxCoros == 1        \* external coroutines given to execute_from_commandline
MaxSignals == 2      \* SIGINT deliveries
MaxCalls == 2        \* start()/stop() calls made by a direct caller
MaxReprServices == 7 \* longest *services sequence whose report is checked

Main == 0
SigTasks == 1..MaxSignals
Tasks == {Main} \cup SigTasks
SensorIds == 1..MaxSensorArgs

VARIABLES
    mode,            \* "run": execute_from_commandline; "api": a caller awaits start()/stop()
    services,        \* self.services
    appT,            \* the services that are instances of AppT
    sensorsArg,      \* the sensors= argument of __init__
    sensors,         \* self.sensors, in the iteration order of the set
    loglevel,        \* self.loglevel is truthy
    ncoros,          \* number of coroutines passed to execute_from_commandline
    pc,              \* position of each task
    idx,             \* loop index of the for loop a task is suspended in
    calls,           \* calls issued by a task in its current start or stop pass
    passKind,        \* kind of that pass: "none", "first", "restart", "stop"
    inprog,          \* calls awaited and not yet returned: <<task, call>>
    outcome,         \* result of the task (of the last call, for the api caller)
    title,           \* last title given to setproctitle
    restart_count,   \* Service.restart_count
    should_stop,     \* Service.should_stop (the stop flag)
    loggingSetups,   \* number of setup_logging calls
    firstStarts,     \* number of on_first_start executions
    startEntries,    \* number of Worker.start executions
    handler,         \* the SIGINT handler is installed
    signals,         \* SIGINT deliveries so far
    coro,            \* state of each external coroutine task
    gatherExc,       \* first external coroutine that raised, 0 if none
    ncalls,          \* calls made by the api caller
    sigResult,       \* what each delivery's _on_sigint call did
    sigAt,           \* whether start() was in progress at each SIGINT delivery
    statsPc,         \* position of the _stats task
    lateSleep,       \* _stats began a sleep with the stop flag true
    printed          \* the last report printed by _stats

cfgvars == <<mode, services, appT, sensorsArg, sensors, loglevel, ncoros>>
vars == <<mode, services, appT, sensorsArg, sensors, loglevel, ncoros,
          pc, idx, calls, passKind, inprog, outcome, title, restart_count,
          should_stop, loggingSetups, firstStarts, startEntries, handler,
          signals, sigResult, sigAt, coro, gatherExc, ncalls, statsPc, lateSleep,
          printed>>

\* ----------------------------------------------------------------- helpers
Range(s) == {s[i] : i \in 1..Len(s)}
Reverse(s) == [i \in 1..Len(s) |-> s[Len(s) + 1 - i]]
SeqsUpTo(S, n) == UNION {[1..k -> S] : k \in 0..n}
Perms(S) == {p \in [1..Cardinality(S) -> S] : Range(p) = S}

\* A call on a collaborator; svc / sen are 0 where they do not apply.
Ev(op, c, s) == [op |-> op, svc |-> c, sen |-> s]
SensorStart(s) == Ev("sensor.maybe_start", 0, s)
AddSensor(c, s) == Ev("add_sensor", c, s)
ServiceStart(c) == Ev("service.maybe_start", c, 0)
ServiceStop(c) == Ev("service.stop", c, 0)
SensorStop(s) == Ev("sensor.stop", 0, s)
NoEv == Ev("none", 0, 0)

\* Results of a task or call.  An exception is identified by the call that
\* raised it, so that "propagates unchanged" can be checked.
Pending == [kind |-> "pending", exc |-> NoEv]
Returned == [kind |-> "returned", exc |-> NoEv]
Raised(e) == [kind |-> "raised", exc |-> e]
LoopRunningError == Ev("RuntimeError: loop is running", 0, 0)
CoroError(k) == Ev("coroutine raised", k, 0)
SystemExit == Ev("SystemExit", 0, 0)

\* The mutable state as one record.
Cur == [pc |-> pc, idx |-> idx, calls |-> calls, passKind |-> passKind,
        inprog |-> inprog, outcome |-> outcome, title |-> title,
        restart_count |-> restart_count, should_stop |-> should_stop,
        loggingSetups |-> loggingSetups, firstStarts |-> firstStarts,
        startEntries |-> startEntries, statsPc |-> statsPc,
        lateSleep |-> lateSleep]

Becomes(s) ==
    /\ pc' = s.pc
    /\ idx' = s.idx
    /\ calls' = s.calls
    /\ passKind' = s.passKind
    /\ inprog' = s.inprog
    /\ outcome' = s.outcome
    /\ title' = s.title
    /\ restart_count' = s.restart_count
    /\ should_stop' = s.should_stop
    /\ loggingSetups' = s.loggingSetups
    /\ firstStarts' = s.firstStarts
    /\ startEntries' = s.startEntries
    /\ statsPc' = s.statsPc
    /\ lateSleep' = s.lateSleep

\* def _setproctitle(self, info)
setproctitle(s, info) == [s EXCEPT !.title = info]

\* `await unit.op()`: the call is issued and task t suspends in it.
Await(s, t, e, at, i) ==
    [s EXCEPT !.calls[t] = Append(@, e),
              !.inprog = @ \cup {<<t, e>>},
              !.pc[t] = at,
              !.idx[t] = i]

\* The awaited call of task t is over (returned or raised).
Resumed(s, t) == [s EXCEPT !.inprog = {x \in @ : x[1] # t}]

\* ------------------------------------------------ the awaiters of start/stop
\* BaseEventLoop.close() raises RuntimeError when the loop is running, and
\* _stop_on_signal always runs inside the running loop.
loop_close == Raised(LoopRunningError)

\* Mutant: the exception is replaced by another one on its way out.
Propagate_Wrapped(s, t, e) ==
    [s EXCEPT !.outcome[t] = Raised(Ev("wrapped", 0, 0)),
              !.pc[t] = IF t = Main /\ mode = "api" THEN "idle" ELSE "done"]

\* Mutant: a failed pass still stops the sensors on its way out.
Propagate_StopsSensors(s, t, e) ==
    [s EXCEPT !.outcome[t] = Raised(e),
              !.calls[t] = @ \o [j \in 1..Len(sensors) |-> SensorStop(sensors[j])],
              !.pc[t] = IF t = Main /\ mode = "api" THEN "idle" ELSE "done"]

\* An exception leaves the call of task t: nothing in worker.py catches it.
\* It ends _execute_from_commandline (run) or _stop_on_signal, or is handed
\* to the api caller.
Propagate(s, t, e) ==
    [s EXCEPT !.outcome[t] = Raised(e),
              !.pc[t] = IF t = Main /\ mode = "api" THEN "idle" ELSE "done"]

\* _execute_from_commandline after `await self.start()`: schedules _stats
\* and awaits that task.  The api caller just gets the result.
AfterStart(s, t) ==
    IF mode = "run"
    THEN [s EXCEPT !.statsPc = "created", !.pc[t] = "await_stats"]
    ELSE [s EXCEPT !.outcome[t] = Returned, !.pc[t] = "idle"]

\* _stop_on_signal after `await self.stop()`: loop.close(), raise SystemExit.
AfterStop(s, t) ==
    IF t \in SigTasks
    THEN [s EXCEPT !.outcome[t] = IF loop_close.kind = "raised"
                                  THEN loop_close
                                  ELSE Raised(SystemExit),
                   !.pc[t] = "done"]
    ELSE [s EXCEPT !.outcome[t] = Returned, !.pc[t] = "idle"]

\* ---------------------------------------------------------- Service (base)
\* Service.start after on_start returned: the start cycle is complete.
Service_start_return(s, t) ==
    AfterStart([s EXCEPT !.restart_count = @ + 1], t)

\* Service.stop after on_stop returned: the stop flag latches.
Service_stop_return(s, t) ==
    AfterStop([s EXCEPT !.should_stop = TRUE], t)

\* ------------------------------------------------------------------ Worker
\* Mutant: the last sensor of the set is not attached.
AttachCalls_SkipLast(c) ==
    IF c \in appT
    THEN [j \in 1..(Len(sensors) - 1) |-> AddSensor(c, sensors[j])]
    ELSE <<>>

\* for sensor in self.sensors: if isinstance(service, AppT): add_sensor
AttachCalls(c) ==
    IF c \in appT
    THEN [j \in 1..Len(sensors) |-> AddSensor(c, sensors[j])]
    ELSE <<>>

\* Mutant: the services are started last to first.
OnStartOrder_Reversed == Reverse(services)

\* for service in self.services
OnStartOrder == services

\* One iteration of the loop of on_start, from service number i on.
on_start_from(s, t, i) ==
    IF i > Len(OnStartOrder)
    THEN Service_start_return(s, t)
    ELSE LET c == OnStartOrder[i]
             s1 == [s EXCEPT !.calls[t] = @ \o AttachCalls(c)]
             s2 == setproctitle(s1, "running")
         IN  Await(s2, t, ServiceStart(c), "on_start", i)

\* async def on_start(self)
on_start(s, t) == on_start_from(setproctitle(s, "starting"), t, 1)

\* Service.start: runs on_start.
Service_start(s, t) == on_start(s, t)

\* Mutant: on_first_start does not start the sensors.
on_first_start_from_NoSensors(s, t, j) == Service_start(s, t)

\* The sensor loop of on_first_start from sensor number j on, and then the
\* rest of Worker.start.
on_first_start_from(s, t, j) ==
    IF j > Len(sensors)
    THEN Service_start(s, t)
    ELSE Await(s, t, SensorStart(sensors[j]), "on_first_start", j)

\* async def on_first_start(self)
on_first_start(s, t) ==
    LET s1 == [s EXCEPT !.firstStarts = @ + 1,
                        !.loggingSetups = IF loglevel THEN @ + 1 ELSE @]
    IN  on_first_start_from(s1, t, 1)

\* if not self.restart_count
IsFirstStart(s) == s.restart_count = 0

\* Mutant: start() clears the stop flag, as a restart would.
start_ClearsFlag(s, t) ==
    LET s1 == [s EXCEPT !.startEntries = @ + 1,
                        !.should_stop = FALSE,
                        !.calls[t] = <<>>,
                        !.outcome[t] = Pending,
                        !.passKind[t] = IF IsFirstStart(s) THEN "first"
                                        ELSE "restart"]
    IN  IF IsFirstStart(s) THEN on_first_start(s1, t)
        ELSE Service_start(s1, t)

\* async def start(self)
start(s, t) ==
    LET s1 == [s EXCEPT !.startEntries = @ + 1,
                        !.calls[t] = <<>>,
                        !.outcome[t] = Pending,
                        !.passKind[t] = IF IsFirstStart(s) THEN "first"
                                        ELSE "restart"]
    IN  IF IsFirstStart(s) THEN on_first_start(s1, t)
        ELSE Service_start(s1, t)

\* for sensor in self.sensors: await sensor.stop()
on_stop_sensors_from(s, t, j) ==
    IF j > Len(sensors)
    THEN Service_stop_return(s, t)
    ELSE Await(s, t, SensorStop(sensors[j]), "on_stop_sensors", j)

\* Mutant: the services are stopped in start order.
OnStopOrder_Forward == services

\* for service in reversed(self.services)
OnStopOrder == Reverse(services)

\* One iteration of the service loop of on_stop.
on_stop_from(s, t, i) ==
    IF i > Len(OnStopOrder)
    THEN on_stop_sensors_from(s, t, 1)
    ELSE Await(s, t, ServiceStop(OnStopOrder[i]), "on_stop", i)

\* async def on_stop(self)
on_stop(s, t) == on_stop_from(setproctitle(s, "stopping"), t, 1)

\* Service.stop: runs on_stop.
stop(s, t) ==
    on_stop([s EXCEPT !.calls[t] = <<>>,
                      !.outcome[t] = Pending,
                      !.passKind[t] = "stop"], t)

\* Service.wait_until_stopped: suspends until the stop flag is true.
wait_until_stopped(s, t) ==
    IF s.should_stop
    THEN [s EXCEPT !.outcome[t] = Returned, !.pc[t] = "done"]
    ELSE [s EXCEPT !.pc[t] = "wait_stopped"]

\* Mutant: the loop sleeps again without testing the flag.
stats_loop_NoTest(s) ==
    [s EXCEPT !.statsPc = "sleeping",
              !.lateSleep = @ \/ s.should_stop]

\* One pass of `while not self.should_stop: await asyncio.sleep(5)`.
stats_loop(s) ==
    IF s.should_stop
    THEN [s EXCEPT !.statsPc = "done"]
    ELSE [s EXCEPT !.statsPc = "sleeping",
                   !.lateSleep = @ \/ s.should_stop]

\* reprlib.Repr().maxlist: repr_list renders at most this many members.
ReprMaxList == 6

\* Repr.repr_list: "[m1, m2, ...]" with the first maxlist members, and a
\* trailing "..." when there are more.
repr_list(x) ==
    [form |-> "list",
     items |-> SubSeq(x, 1, IF Len(x) < ReprMaxList THEN Len(x) ELSE ReprMaxList),
     more |-> Len(x) > ReprMaxList]

\* Mutant: the tuple keeps reprlib's own tuple rendering "(m1, m2, ...)".
repr_tuple_AsTuple(x) == [repr_list(x) EXCEPT !.form = "tuple"]

\* _repr(self.services): a tuple is rendered the way a list is.
repr_tuple(x) == repr_list(x)

\* What _stats prints after each sleep.
NoReport == [form |-> "none", items |-> <<>>, more |-> FALSE, stopped |-> FALSE]
stats_print(s) ==
    LET r == IF Len(services) = 1
             THEN [form |-> "item", items |-> <<services[1]>>, more |-> FALSE]
             ELSE repr_tuple(services)
    IN  [form |-> r.form, items |-> r.items, more |-> r.more,
         stopped |-> s.should_stop]

\* except RuntimeError: pass
Swallowed(e) == e = LoopRunningError

\* loop.run_until_complete(...) called from a callback of the running loop.
run_until_complete == Raised(LoopRunningError)

\* def _on_sigint(self): the result of the handler.
on_sigint_result ==
    IF run_until_complete.kind = "raised" /\ Swallowed(run_until_complete.exc)
    THEN Returned
    ELSE run_until_complete

\* Mutant: the sensors are kept as the list that was given.
SensorOrders_NoSet(arg) == {arg}

\* self.sensors = set(sensors or []): the orders in which a loop over the
\* set may visit its members.
SensorOrders(arg) == Perms(Range(arg))

\* ------------------------------------------------------------------- state
\* What __init__ may be given.  self.sensors is a set: its iteration order
\* is some fixed order of its members.
Config ==
    /\ services \in {[i \in 1..n |-> i] : n \in 0..MaxServices}
    /\ appT \in SUBSET Range(services)
    /\ sensorsArg \in SeqsUpTo(SensorIds, MaxSensorArgs)
    /\ sensors \in SensorOrders(sensorsArg)
    /\ loglevel \in BOOLEAN

\* The state after __init__.
Constructed ==
    /\ pc = [t \in Tasks |-> IF t # Main THEN "absent"
                             ELSE IF mode = "run" THEN "init" ELSE "idle"]
    /\ idx = [t \in Tasks |-> 0]
    /\ calls = [t \in Tasks |-> <<>>]
    /\ passKind = [t \in Tasks |-> "none"]
    /\ inprog = {}
    /\ outcome = [t \in Tasks |-> Pending]
    /\ title = "none"
    /\ restart_count = 0
    /\ should_stop = FALSE
    /\ loggingSetups = 0
    /\ firstStarts = 0
    /\ startEntries = 0
    /\ handler = FALSE
    /\ signals = 0
    /\ sigResult = [t \in SigTasks |-> Pending]
    /\ sigAt = [t \in SigTasks |-> "none"]
    /\ coro = [k \in 1..ncoros |-> "pending"]
    /\ gatherExc = 0
    /\ ncalls = 0
    /\ statsPc = "none"
    /\ lateSleep = FALSE
    /\ printed = NoReport

\* The inputs of the run specification: the ones that change the control
\* flow (how many services, sensors and coroutines).  The inputs that only
\* change what is attached or configured (which services are AppT, repeated
\* sensor arguments, the iteration order, loglevel) are varied in ApiSpec.
RunConfig ==
    /\ services \in {[i \in 1..n |-> i] : n \in 0..MaxServices}
    /\ appT = Range(services)
    /\ sensorsArg \in {[i \in 1..n |-> i] : n \in 0..MaxRunSensors}
    /\ sensors = sensorsArg
    /\ loglevel = TRUE

\* worker.execute_from_commandline(*coroutines)
Init ==
    /\ mode = "run"
    /\ RunConfig
    /\ ncoros \in 0..MaxCoros
    /\ Constructed

\* A caller that awaits worker.start() and worker.stop() itself.
ApiInit ==
    /\ mode = "api"
    /\ Config
    /\ ncoros = 0
    /\ Constructed

\* The reporter at work: start() has returned for some tuple of services
\* (an object may be passed more than once), _stats is in its first sleep.
ReprInit ==
    /\ mode = "run"
    /\ services \in SeqsUpTo(1..2, MaxReprServices)
    /\ appT = {}
    /\ sensorsArg = <<>>
    /\ sensors = <<>>
    /\ loglevel = FALSE
    /\ ncoros = 0
    /\ pc = [t \in Tasks |-> IF t = Main THEN "await_stats" ELSE "absent"]
    /\ idx = [t \in Tasks |-> IF t = Main THEN Len(services) ELSE 0]
    /\ calls = [t \in Tasks |->
                  IF t = Main
                  THEN [i \in 1..Len(services) |-> ServiceStart(services[i])]
                  ELSE <<>>]
    /\ passKind = [t \in Tasks |-> IF t = Main THEN "first" ELSE "none"]
    /\ inprog = {}
    /\ outcome = [t \in Tasks |-> Pending]
    /\ title = IF services = <<>> THEN "starting" ELSE "running"
    /\ restart_count = 1
    /\ should_stop = FALSE
    /\ loggingSetups = 0
    /\ firstStarts = 1
    /\ startEntries = 1
    /\ handler = TRUE
    /\ signals = 0
    /\ sigResult = [t \in SigTasks |-> Pending]
    /\ sigAt = [t \in SigTasks |-> "none"]
    /\ coro = <<>>
    /\ gatherExc = 0
    /\ ncalls = 0
    /\ statsPc = "sleeping"
    /\ lateSleep = FALSE
    /\ printed = NoReport

\* Task t is suspended inside start().
InStart(t) == pc[t] \in {"on_first_start", "on_start"}

\* run_until_complete(main) keeps the loop running until main is done.
LoopRunning == pc[Main] # "done"

rest == <<handler, signals, sigResult, sigAt, coro, gatherExc, ncalls, printed>>

\* ----------------------------------------------------------------- actions
\* _execute_from_commandline up to its first suspension.
RunInit ==
    /\ mode = "run" /\ pc[Main] = "init"
    /\ handler' = TRUE
    /\ LET s1 == setproctitle(Cur, "init")
       IN  IF ncoros = 0
           THEN Becomes(start(s1, Main))
           ELSE Becomes([s1 EXCEPT !.pc[Main] = "gather"])
    /\ UNCHANGED <<cfgvars, signals, sigResult, sigAt, coro, gatherExc, ncalls, printed>>

\* An external coroutine finishes.
CoroReturn(k) ==
    /\ LoopRunning /\ pc[Main] # "init" /\ coro[k] = "pending"
    /\ coro' = [coro EXCEPT ![k] = "returned"]
    /\ UNCHANGED <<cfgvars, pc, idx, calls, passKind, inprog, outcome, title,
                   restart_count, should_stop, loggingSetups, firstStarts,
                   startEntries, statsPc, lateSleep, handler, signals, sigResult, sigAt,
                   gatherExc, ncalls, printed>>

\* An external coroutine raises; gather keeps the first exception.
CoroRaise(k) ==
    /\ LoopRunning /\ pc[Main] # "init" /\ coro[k] = "pending"
    /\ coro' = [coro EXCEPT ![k] = "raised"]
    /\ gatherExc' = IF gatherExc = 0 THEN k ELSE gatherExc
    /\ UNCHANGED <<cfgvars, pc, idx, calls, passKind, inprog, outcome, title,
                   restart_count, should_stop, loggingSetups, firstStarts,
                   startEntries, statsPc, lateSleep, handler, signals, sigResult, sigAt,
                   ncalls, printed>>

\* Mutant: start() is entered without waiting for the coroutines.
GatherReturn_NoWait ==
    /\ pc[Main] = "gather"
    /\ Becomes(start(Cur, Main))
    /\ UNCHANGED <<cfgvars, rest>>

\* asyncio.gather returns: every coroutine returned; then `await self.start()`.
GatherReturn ==
    /\ pc[Main] = "gather"
    /\ \A k \in 1..ncoros : coro[k] = "returned"
    /\ Becomes(start(Cur, Main))
    /\ UNCHANGED <<cfgvars, rest>>

\* asyncio.gather raises the first exception of its children.
GatherRaise ==
    /\ pc[Main] = "gather"
    /\ gatherExc # 0
    /\ Becomes(Propagate(Cur, Main, CoroError(gatherExc)))
    /\ UNCHANGED <<cfgvars, rest>>

\* A direct caller awaits worker.start().
ApiStart ==
    /\ mode = "api" /\ pc[Main] = "idle" /\ ncalls < MaxCalls
    /\ ncalls' = ncalls + 1
    /\ Becomes(start(Cur, Main))
    /\ UNCHANGED <<cfgvars, handler, signals, sigResult, sigAt, coro, gatherExc, printed>>

\* A direct caller awaits worker.stop().
ApiStop ==
    /\ mode = "api" /\ pc[Main] = "idle" /\ ncalls < MaxCalls
    /\ ncalls' = ncalls + 1
    /\ Becomes(stop(Cur, Main))
    /\ UNCHANGED <<cfgvars, handler, signals, sigResult, sigAt, coro, gatherExc, printed>>

\* sensor.maybe_start() returns inside on_first_start.
SensorStartReturn(t) ==
    /\ LoopRunning /\ pc[t] = "on_first_start"
    /\ Becomes(on_first_start_from(Resumed(Cur, t), t, idx[t] + 1))
    /\ UNCHANGED <<cfgvars, rest>>

\* service.maybe_start() returns inside on_start.
ServiceStartReturn(t) ==
    /\ LoopRunning /\ pc[t] = "on_start"
    /\ Becomes(on_start_from(Resumed(Cur, t), t, idx[t] + 1))
    /\ UNCHANGED <<cfgvars, rest>>

\* service.stop() returns inside on_stop.
ServiceStopReturn(t) ==
    /\ LoopRunning /\ pc[t] = "on_stop"
    /\ Becomes(on_stop_from(Resumed(Cur, t), t, idx[t] + 1))
    /\ UNCHANGED <<cfgvars, rest>>

\* sensor.stop() returns inside on_stop.
SensorStopReturn(t) ==
    /\ LoopRunning /\ pc[t] = "on_stop_sensors"
    /\ Becomes(on_stop_sensors_from(Resumed(Cur, t), t, idx[t] + 1))
    /\ UNCHANGED <<cfgvars, rest>>

\* The awaited maybe_start/stop raises.
CallRaise(t) ==
    /\ LoopRunning
    /\ pc[t] \in {"on_first_start", "on_start", "on_stop", "on_stop_sensors"}
    /\ Becomes(Propagate(Resumed(Cur, t), t, calls[t][Len(calls[t])]))
    /\ UNCHANGED <<cfgvars, rest>>

\* SIGINT is delivered: the loop calls _on_sigint, which schedules a
\* _stop_on_signal task and fails to drive the running loop.
Sigint ==
    /\ LoopRunning /\ handler /\ signals < MaxSignals
    /\ signals' = signals + 1
    /\ pc' = [pc EXCEPT ![signals + 1] = "created"]
    /\ sigResult' = [sigResult EXCEPT ![signals + 1] = on_sigint_result]
    /\ sigAt' = [sigAt EXCEPT ![signals + 1] =
                    IF InStart(Main) THEN "in start" ELSE "not in start"]
    /\ UNCHANGED <<cfgvars, idx, calls, passKind, inprog, outcome, title,
                   restart_count, should_stop, loggingSetups, firstStarts,
                   startEntries, statsPc, lateSleep, handler, coro, gatherExc, ncalls,
                   printed>>

\* A _stop_on_signal task runs for the first time: `await self.stop()`.
StopOnSignal(t) ==
    /\ LoopRunning /\ t \in SigTasks /\ pc[t] = "created"
    /\ Becomes(stop(Cur, t))
    /\ UNCHANGED <<cfgvars, rest>>

\* The _stats task runs for the first time.
StatsStart ==
    /\ LoopRunning /\ statsPc = "created"
    /\ Becomes(stats_loop(Cur))
    /\ UNCHANGED <<cfgvars, rest>>

\* asyncio.sleep(5) is over: print the report, test the flag again.
StatsWake ==
    /\ LoopRunning /\ statsPc = "sleeping"
    /\ printed' = stats_print(Cur)
    /\ Becomes(stats_loop(Cur))
    /\ UNCHANGED <<cfgvars, handler, signals, sigResult, sigAt, coro, gatherExc, ncalls>>

\* The _stats task is done: main goes on to `await self.wait_until_stopped()`.
StatsJoined ==
    /\ pc[Main] = "await_stats" /\ statsPc = "done"
    /\ Becomes(wait_until_stopped(Cur, Main))
    /\ UNCHANGED <<cfgvars, rest>>

Lifecycle ==
    \/ \E t \in Tasks : SensorStartReturn(t)
    \/ \E t \in Tasks : ServiceStartReturn(t)
    \/ \E t \in Tasks : ServiceStopReturn(t)
    \/ \E t \in Tasks : SensorStopReturn(t)
    \/ \E t \in Tasks : CallRaise(t)

Next ==
    \/ RunInit
    \/ \E k \in 1..ncoros : CoroReturn(k)
    \/ \E k \in 1..ncoros : CoroRaise(k)
    \/ GatherReturn
    \/ GatherRaise
    \/ Sigint
    \/ \E t \in SigTasks : StopOnSignal(t)
    \/ StatsStart
    \/ StatsWake
    \/ StatsJoined
    \/ Lifecycle

ApiNext ==
    \/ ApiStart
    \/ ApiStop
    \/ Lifecycle

Spec == Init /\ [][Next]_vars

ApiSpec == ApiInit /\ [][ApiNext]_vars

\* What the event loop and the collaborators guarantee: a ready task is
\* run, a sleep ends, and every awaited call and coroutine ends, by
\* returning or by raising.  Signals may or may not come.
Fairness ==
    /\ WF_vars(RunInit)
    /\ WF_vars(GatherReturn)
    /\ WF_vars(GatherRaise)
    /\ \A k \in 1..MaxCoros :
          WF_vars(k <= ncoros /\ (CoroReturn(k) \/ CoroRaise(k)))
    /\ \A t \in Tasks :
          WF_vars(SensorStartReturn(t) \/ ServiceStartReturn(t)
                    \/ ServiceStopReturn(t) \/ SensorStopReturn(t)
                    \/ CallRaise(t))
    /\ \A t \in SigTasks : WF_vars(StopOnSignal(t))
    /\ WF_vars(StatsStart)
    /\ WF_vars(StatsWake)
    /\ WF_vars(StatsJoined)

FairSpec == Init /\ [][Next]_vars /\ Fairness

ReprNext == StatsWake

ReprSpec == ReprInit /\ [][ReprNext]_vars

\* ------------------------------------------------------- reading the calls
IsStartPass(t) == passKind[t] \in {"first", "restart"}
IsStopPass(t) == passKind[t] = "stop"
PassOver(t) == pc[t] \in {"idle", "done", "await_stats", "wait_stopped"}
OfOp(t, op) == SelectSeq(calls[t], LAMBDA e : e.op = op)
LastCall(t) == calls[t][Len(calls[t])]
\* Every call of task t but its last has returned.
EarlierCallsOver(t) ==
    \A i \in 1..(Len(calls[t]) - 1) : <<t, calls[t][i]>> \notin inprog
IsPrefix(a, b) ==
    /\ Len(a) <= Len(b)
    /\ \A i \in 1..Len(a) : a[i] = b[i]
\* Call e comes before position p in the calls of task t.
Before(t, e, p) == \E q \in 1..(p - 1) : calls[t][q] = e
\* The whole stop sequence: services in reverse, then the sensors.
FullStop ==
    [i \in 1..Len(services) |-> ServiceStop(services[Len(services) + 1 - i])]
        \o [j \in 1..Len(sensors) |-> SensorStop(sensors[j])]

\* ------------------------------------------------------------------ claims
\* C1: in every start pass the services' maybe_start calls are issued in
\* the order of self.services, each only after the one before it has
\* returned, and no two of them are in progress at once.
C1_StartInListOrder ==
    /\ \A t \in Tasks : IsStartPass(t) =>
          LET st == OfOp(t, "service.maybe_start")
          IN  /\ Len(st) <= Len(services)
              /\ \A i \in 1..Len(st) : st[i] = ServiceStart(services[i])
              /\ \A i \in 1..(Len(st) - 1) : <<t, st[i]>> \notin inprog
    /\ Cardinality({x \in inprog : x[2].op = "service.maybe_start"}) <= 1

\* A pass that has gone on to start the second of two services.
C1_Witness ==
    /\ Len(services) >= 2
    /\ IsStartPass(Main)
    /\ <<Main, ServiceStart(services[2])>> \in inprog

\* C2: in every stop pass the services are stopped in exactly the reverse
\* of self.services, each only after the one before it has returned, and a
\* sensor is stopped only after every service's stop has returned.
C2_StopInReverseOrder ==
    \A t \in Tasks : IsStopPass(t) =>
        LET sv == OfOp(t, "service.stop")
            sn == OfOp(t, "sensor.stop")
        IN  /\ calls[t] = sv \o sn
            /\ Len(sv) <= Len(services)
            /\ \A i \in 1..Len(sv) :
                  sv[i] = ServiceStop(services[Len(services) + 1 - i])
            /\ sn # <<>> => Len(sv) = Len(services)
            /\ EarlierCallsOver(t)

\* A stop pass over two services that has reached the sensors.
C2_Witness ==
    /\ Len(services) >= 2
    /\ IsStopPass(Main)
    /\ pc[Main] = "on_stop_sensors"
    /\ calls[Main][1] = ServiceStop(services[2])
    /\ calls[Main][2] = ServiceStop(services[1])

\* C3: in every start pass, when maybe_start is called on a service that is
\* an AppT, add_sensor has been called on it for every sensor of the set.
C3_AttachBeforeStart ==
    \A t \in Tasks : IsStartPass(t) =>
        \A p \in 1..Len(calls[t]) :
            LET e == calls[t][p]
            IN  (e.op = "service.maybe_start" /\ e.svc \in appT) =>
                    \A s \in Range(sensors) : Before(t, AddSensor(e.svc, s), p)

\* A second start cycle that starts an AppT service with two sensors.
C3_Witness ==
    /\ passKind[Main] = "restart"
    /\ Len(sensors) >= 2
    /\ \E c \in appT : <<Main, ServiceStart(c)>> \in inprog

\* C4: in a pass that runs the first start (restart_count = 0), every
\* sensor's maybe_start has been called and has returned before any
\* add_sensor call and before any service's maybe_start call.
C4_SensorsStartFirst ==
    \A t \in Tasks : passKind[t] = "first" =>
        \A p \in 1..Len(calls[t]) :
            calls[t][p].op \in {"add_sensor", "service.maybe_start"} =>
                \A s \in Range(sensors) :
                    /\ Before(t, SensorStart(s), p)
                    /\ <<t, SensorStart(s)>> \notin inprog

\* A first start with two sensors that has attached them and started a service.
C4_Witness ==
    /\ passKind[Main] = "first"
    /\ Len(sensors) >= 2
    /\ \E c \in appT : <<Main, ServiceStart(c)>> \in inprog

\* C5: on_first_start runs exactly once however often start() is entered,
\* and setup_logging is called at most once and never without a loglevel.
C5_FirstStartOnce ==
    /\ startEntries >= 1 => firstStarts = 1
    /\ loggingSetups <= 1
    /\ ~loglevel => loggingSetups = 0

\* C6: two SIGINT deliveries lead to at most one shutdown sequence: no
\* service or sensor has its stop called by more than one shutdown task,
\* and neither call of _on_sigint raises.
C6_OneShutdown ==
    /\ \A k \in SigTasks : sigResult[k].kind # "raised"
    /\ \A e \in Range(FullStop) :
          Cardinality({t \in SigTasks : e \in Range(calls[t])}) <= 1

\* C7: when SIGINT arrives while start() is suspended in a maybe_start, the
\* shutdown task it creates calls no service's stop while that start pass
\* is still in progress.
C7_StartFinishesBeforeStop ==
    \A t \in SigTasks :
        (sigAt[t] = "in start" /\ OfOp(t, "service.stop") # <<>>)
            => ~InStart(Main)

\* C8: when a maybe_start raises during start(), the caller gets that very
\* exception, the call that raised is the last call of the pass (no later
\* service is started) and the pass calls no stop (no rollback); a pass
\* that ends without a raise has started every service.
C8_StartFailFast ==
    \A t \in Tasks : (IsStartPass(t) /\ PassOver(t)) =>
        /\ \A i \in 1..Len(calls[t]) :
              calls[t][i].op \notin {"service.stop", "sensor.stop"}
        /\ \A x \in inprog : x[1] # t
        /\ \/ /\ outcome[t].kind = "raised"
              /\ calls[t] # <<>>
              /\ outcome[t].exc = LastCall(t)
              /\ LastCall(t).op \in {"sensor.maybe_start", "service.maybe_start"}
           \/ /\ outcome[t].kind # "raised"
              /\ Len(OfOp(t, "service.maybe_start")) = Len(services)

\* The first of two services raised after a sensor had been started.
C8_Witness ==
    /\ Len(services) >= 2
    /\ Len(sensors) >= 1
    /\ IsStartPass(Main) /\ PassOver(Main)
    /\ outcome[Main] = Raised(ServiceStart(services[1]))

\* C9: when a stop raises during stop(), the caller gets that very
\* exception and the call that raised is the last call of the pass: the
\* services before it in the list and the sensors after it are not
\* stopped; a pass that ends without such a raise has stopped everything.
C9_StopFailFast ==
    \A t \in Tasks : (IsStopPass(t) /\ PassOver(t)) =>
        /\ \A x \in inprog : x[1] # t
        /\ \/ /\ outcome[t].kind = "raised"
              /\ outcome[t].exc.op \in {"service.stop", "sensor.stop"}
              /\ calls[t] # <<>>
              /\ outcome[t].exc = LastCall(t)
              /\ IsPrefix(calls[t], FullStop)
           \/ /\ outcome[t] \in {Returned, loop_close}
              /\ calls[t] = FullStop

\* The stop of the last of two services raised: the first service and the
\* sensor were never stopped.
C9_Witness ==
    /\ Len(services) >= 2
    /\ Len(sensors) >= 1
    /\ IsStopPass(Main) /\ PassOver(Main)
    /\ outcome[Main] = Raised(ServiceStop(services[2]))
    /\ Len(calls[Main]) = 1

C11_ReportOnlyWhileRunning ==
    printed.form # "none" => ~printed.stopped

\* C12: _stats never begins a sleep once the stop flag is true, and a sleep
\* that ends with the flag true is its last: the loop is over after it.
C12_ExitWithinOneInterval ==
    /\ ~lateSleep
    /\ (should_stop /\ printed.stopped) => statsPc = "done"
    /\ (should_stop /\ statsPc = "sleeping") => ~printed.stopped

\* The flag became true during a sleep; that sleep ended and the loop exited.
C12_Witness ==
    /\ should_stop
    /\ printed.stopped
    /\ statsPc = "done"

\* C13: the stop flag is a one-way latch: no step of the worker, of a
\* shutdown task or of _stats takes it from true back to false.
C13_StopFlagLatch == [][should_stop => should_stop']_vars

\* start() is running after the flag has latched.
C13_Witness ==
    /\ should_stop
    /\ InStart(Main)

\* C14: a shutdown task raises SystemExit only after its whole stop
\* sequence has returned, and a shutdown task whose stop calls all
\* returned ends by raising SystemExit.
C14_ExitAfterStop ==
    \A t \in SigTasks :
        /\ outcome[t] = Raised(SystemExit) =>
              (calls[t] = FullStop /\ should_stop /\ \A x \in inprog : x[1] # t)
        /\ (pc[t] = "done"
              /\ outcome[t].exc.op \notin {"service.stop", "sensor.stop"})
            => outcome[t] = Raised(SystemExit)

C16_ReportWholeSequence ==
    printed.form # "none" =>
        IF Len(services) = 1
        THEN printed.form = "item" /\ printed.items = <<services[1]>>
        ELSE printed.form = "list" /\ printed.items = services /\ ~printed.more

\* C16 as amended: with one service the report is that service itself;
\* otherwise it is a list-like rendering, in construction order, of the
\* first ReprMaxList services, marked as cut when there are more.
C16_ReportForm ==
    printed.form # "none" =>
        IF Len(services) = 1
        THEN /\ printed.form = "item"
             /\ printed.items = <<services[1]>>
             /\ ~printed.more
        ELSE /\ printed.form = "list"
             /\ Len(printed.items) <= ReprMaxList
             /\ Len(printed.items) <= Len(services)
             /\ \A i \in 1..Len(printed.items) : printed.items[i] = services[i]
             /\ (Len(services) <= ReprMaxList
                    => Len(printed.items) = Len(services))
             /\ printed.more = (Len(services) > ReprMaxList)

\* A report of more services than reprlib lists.
C16_Witness ==
    /\ Len(services) > ReprMaxList
    /\ printed.form = "list"
    /\ printed.more

\* C17: the title is "running" only once every service's maybe_start has
\* returned in the start pass that set it.
C17_RunningAfterAllStarted ==
    title = "running" =>
        \A t \in Tasks : IsStartPass(t) =>
            /\ Len(OfOp(t, "service.maybe_start")) = Len(services)
            /\ \A x \in inprog : x[1] = t => x[2].op # "service.maybe_start"

\* C18: run only schedules _stats and goes on to wait_until_stopped: while
\* the reporter is still looping, main is suspended on the stop flag (or
\* has already returned from that wait).
C18_RunWaitsOnFlag ==
    statsPc \in {"created", "sleeping"} =>
        pc[Main] \in {"wait_stopped", "done"}

\* C19: once stop() has been entered or the stop flag is true, no step of
\* the worker issues a maybe_start call on a sensor or a service.
C19_NoStartAfterStop ==
    [][(should_stop \/ \E u \in Tasks : passKind[u] = "stop") =>
          \A t \in Tasks :
              \/ calls'[t] = calls[t]
              \/ calls'[t] = <<>>
              \/ calls'[t][Len(calls'[t])].op
                    \notin {"sensor.maybe_start", "service.maybe_start"}]_vars

\* Some shutdown task has run the whole stop sequence and the flag is true.
ShutDown ==
    /\ should_stop
    /\ \E t \in SigTasks : pc[t] = "done" /\ calls[t] = FullStop
\* A stop call of a shutdown task has raised.
StopRaised ==
    \E t \in SigTasks :
        /\ outcome[t].kind = "raised"
        /\ outcome[t].exc.op \in {"service.stop", "sensor.stop"}

\* C20: after a SIGINT delivery whose run_until_complete was
\* rejected, and with stop calls that return, every service and sensor is
\* eventually stopped and the stop flag eventually becomes true.
C20_SignalLeadsToShutdown ==
    (signals >= 1) ~> (ShutDown \/ StopRaised)
====
